---- MODULE Spec2Model ----
(***************************************************************************)
(* Model of pipeline/ingest_data.py: the command-line dispatcher `main`    *)
(* and the three ingestion routines ingest_csv, ingest_parquet and         *)
(* ingest_zone_lookup writing into one target table of a database.         *)
(*                                                                         *)
(* Strings that the program transforms are modelled character by           *)
(* character: a column name is a sequence of one-character strings, a URL  *)
(* is the sequence of the pieces its f-string concatenates, the formatted  *)
(* year and month being sequences of digit characters.                     *)
(***************************************************************************)
EXTENDS Integers, Sequences, FiniteSets, TLC

\* ------------------------------------------------------------------------
\* Bounds of the model
\* ------------------------------------------------------------------------
\* largest number of data rows of a remote file
MaxRows == 3
\* largest --chunksize tried besides the default
MaxChunk == 3

\* ------------------------------------------------------------------------
\* Program constants
\* ------------------------------------------------------------------------
\* @click.option('--chunksize', default=100_000)
DefaultChunksize == 100000
\* the width of {year:04d}
YearWidth == 4
\* the width of {month:02d}
MonthWidth == 2

VARIABLES
    pc,          \* position of the process in main / the ingestion routine
    args,        \* the parsed command-line options of the running process
    calls,       \* the ingestion routines main has invoked, with their url
    remote,      \* the file served at the URL during this run
    df,          \* the frame in hand: first_chunk / chunk / df
    pos,         \* number of rows the CSV iterator df_iter has consumed
    table,       \* the target table in the database
    last         \* summary of the previous process run against the table

vars == <<pc, args, calls, remote, df, pos, table, last>>

\* ------------------------------------------------------------------------
\* Characters and column names
\* ------------------------------------------------------------------------
UpperChars == <<"A","B","C","D","E","F","G","H","I","J","K","L","M",
                "N","O","P","Q","R","S","T","U","V","W","X","Y","Z">>
LowerChars == <<"a","b","c","d","e","f","g","h","i","j","k","l","m",
                "n","o","p","q","r","s","t","u","v","w","x","y","z">>

IsUpperChar(c) == \E i \in 1..Len(UpperChars) : UpperChars[i] = c

\* str.lower() on one character
LowerChar(c) ==
    IF IsUpperChar(c)
    THEN LowerChars[CHOOSE i \in 1..Len(UpperChars) : UpperChars[i] = c]
    ELSE c

\* c.lower() for a column name c
StrLower(name) == [i \in 1..Len(name) |-> LowerChar(name[i])]

\* a mutant of the comprehension: the names are kept as they are
LowerColumnsKept(cols) == cols

\* [c.lower() for c in df.columns]
LowerColumns(cols) == [i \in 1..Len(cols) |-> StrLower(cols[i])]

\* column names of the remote files tried
ColVendorID == <<"V","e","n","d","o","r","I","D">>
ColExtra == <<"e","x","t","r","a">>
ColZone == <<"Z","o","n","e">>
ColZoneLower == <<"z","o","n","e">>

\* the headers tried: a trip-data header with mixed case, and a header
\* whose two names differ only in case
Headers == { <<ColVendorID, ColExtra>>, <<ColZone, ColZoneLower>> }

SeqToSet(s) == {s[i] : i \in 1..Len(s)}

HasDuplicates(s) == \E i, j \in 1..Len(s) : i # j /\ s[i] = s[j]

\* ------------------------------------------------------------------------
\* Frames, the remote file and the table
\* ------------------------------------------------------------------------
\* rows i..j of a file whose k-th data row is k
RowsFrom(i, j) == [k \in 1..(IF j >= i THEN j - i + 1 ELSE 0) |-> i + k - 1]

NoFrame == [cols |-> <<>>, rows |-> <<>>]

NoTable == [exists |-> FALSE, cols |-> <<>>, rows |-> <<>>]

NoRemote == [n |-> 0, cols |-> <<>>]

Remotes == [n : 0..MaxRows, cols : Headers]

Min(a, b) == IF a < b THEN a ELSE b

\* a mutant of head(0): the whole frame
Head0Whole(frame) == frame

\* DataFrame.head(0): the columns, no rows
Head0(frame) == [cols |-> frame.cols, rows |-> <<>>]

\* ------------------------------------------------------------------------
\* DataFrame.to_sql
\* ------------------------------------------------------------------------
\* the rows of a table after an INSERT of `new`, with a mutant that puts
\* the inserted rows first
InsertedFirst(rows, new) == new \o rows

Inserted(rows, new) == rows \o new

\* the table a CREATE TABLE for `frame` followed by its INSERT makes
Created(frame) == [exists |-> TRUE, cols |-> frame.cols, rows |-> frame.rows]

CreatedEmpty(frame) == [exists |-> TRUE, cols |-> frame.cols, rows |-> <<>>]

\* a mutant of to_sql whose INSERT is not one transaction: a failed write
\* may leave any proper prefix of the frame's rows behind
ToSqlPartial(tbl, frame, if_exists) ==
    LET creatable == ~HasDuplicates(frame.cols)
        fits == SeqToSet(frame.cols) \subseteq SeqToSet(tbl.cols)
    IN  IF if_exists = "replace" \/ ~tbl.exists
        THEN (IF creatable THEN {[ok |-> TRUE, table |-> Created(frame)]} ELSE {})
             \cup {[ok |-> FALSE, table |-> tbl]}
             \cup (IF creatable
                   THEN {[ok |-> FALSE,
                          table |-> [exists |-> TRUE, cols |-> frame.cols,
                                     rows |-> SubSeq(frame.rows, 1, k)]] :
                         k \in 0..(IF frame.rows = <<>> THEN 0 ELSE Len(frame.rows) - 1)}
                   ELSE {})
        ELSE (IF fits
              THEN {[ok |-> TRUE,
                     table |-> [tbl EXCEPT !.rows = Inserted(tbl.rows, frame.rows)]]}
                   \cup {[ok |-> FALSE,
                          table |-> [tbl EXCEPT !.rows =
                                        Inserted(tbl.rows, SubSeq(frame.rows, 1, k))]] :
                         k \in 0..(IF frame.rows = <<>> THEN 0 ELSE Len(frame.rows) - 1)}
              ELSE {})
             \cup {[ok |-> FALSE, table |-> tbl]}

\* frame.to_sql(target_table, engine, if_exists=..., index=False): the set
\* of outcomes [ok, table] the call can have on table tbl.  The database may
\* reject or lose any statement, so every call can fail; the rows of one
\* call are inserted in one transaction, so a failed call leaves none of
\* them.  With if_exists = "replace" a failed call leaves the old table, no
\* table (dropped, not yet created) or the new empty table, depending on
\* whether the DROP and CREATE were committed before the failure.  Two
\* columns of one name cannot be created, and rows are accepted only by a
\* table that has their columns.
ToSql(tbl, frame, if_exists) ==
    LET creatable == ~HasDuplicates(frame.cols)
        fits == SeqToSet(frame.cols) \subseteq SeqToSet(tbl.cols)
    IN  IF if_exists = "replace" \/ ~tbl.exists
        THEN (IF creatable
              THEN {[ok |-> TRUE, table |-> Created(frame)],
                    [ok |-> FALSE, table |-> CreatedEmpty(frame)]}
              ELSE {})
             \cup (IF if_exists = "replace"
                   THEN {[ok |-> FALSE, table |-> NoTable]}
                   ELSE {})
             \cup {[ok |-> FALSE, table |-> tbl]}
        ELSE (IF fits
              THEN {[ok |-> TRUE,
                     table |-> [tbl EXCEPT !.rows = Inserted(tbl.rows, frame.rows)]]}
              ELSE {})
             \cup {[ok |-> FALSE, table |-> tbl]}

\* ------------------------------------------------------------------------
\* URL construction
\* ------------------------------------------------------------------------
DigitChars == <<"0","1","2","3","4","5","6","7","8","9">>

RECURSIVE Digits(_)
\* the decimal digits of n >= 0
Digits(n) ==
    IF n < 10 THEN <<DigitChars[n + 1]>>
    ELSE Digits(n \div 10) \o <<DigitChars[(n % 10) + 1]>>

RECURSIVE ZeroPad(_, _)
ZeroPad(s, w) == IF Len(s) >= w THEN s ELSE ZeroPad(<<"0">> \o s, w)

\* a mutant of the format specification: {n:d}, no padding
FormatDPlain(n, w) ==
    IF n < 0 THEN <<"-">> \o Digits(-n) ELSE Digits(n)

\* format(n, "0<w>d"): sign-aware zero padding to a total width of w
FormatD(n, w) ==
    IF n < 0 THEN <<"-">> \o ZeroPad(Digits(-n), w - 1)
    ELSE ZeroPad(Digits(n), w)

ZoneUrl ==
    <<"https://github.com/DataTalksClub/nyc-tlc-data/releases/download/misc/taxi_zone_lookup.csv">>

CsvUrl(dataset, year, month) ==
    <<"https://github.com/DataTalksClub/nyc-tlc-data/", "releases/download/",
      dataset, "/", dataset, "_tripdata_">>
    \o FormatD(year, YearWidth) \o <<"-">> \o FormatD(month, MonthWidth)
    \o <<".csv.gz">>

ParquetUrl(dataset, year, month) ==
    <<"https://d37ci6vzurychx.cloudfront.net/trip-data/", dataset, "_tripdata_">>
    \o FormatD(year, YearWidth) \o <<"-">> \o FormatD(month, MonthWidth)
    \o <<".parquet">>

\* ------------------------------------------------------------------------
\* Command lines tried.  An omitted --year, --month is None, written <<>>;
\* a given one is <<n>>.  An omitted --format is "None".
\* ------------------------------------------------------------------------
Datasets == {"yellow", "green", "zone_lookup"}

Formats == {"csv", "parquet", "None"}

YearsTried == {<<>>, <<-5>>, <<7>>, <<2021>>, <<12345>>}

MonthsTried == {<<>>, <<-1>>, <<3>>, <<12>>, <<123>>}

NoArgs == [dataset |-> "", file_format |-> "", year |-> <<>>, month |-> <<>>,
           chunksize |-> 0]

\* every combination of dataset, format, year and month
DispatchArgs ==
    [dataset : Datasets, file_format : Formats, year : YearsTried,
     month : MonthsTried, chunksize : {1}]

\* one command line per routine, the CSV one with every chunk size
IngestArgs ==
    {a \in [dataset : Datasets, file_format : Formats, year : {<<2021>>},
            month : {<<1>>}, chunksize : (0..MaxChunk) \cup {DefaultChunksize}] :
        \/ a.dataset = "yellow" /\ a.file_format = "csv"
        \/ a.dataset = "green" /\ a.file_format = "parquet"
           /\ a.chunksize = DefaultChunksize
        \/ a.dataset = "yellow" /\ a.file_format = "None"
           /\ a.chunksize = DefaultChunksize
        \/ a.dataset = "zone_lookup" /\ a.file_format = "None"
           /\ a.chunksize = DefaultChunksize}

DispatchRemotes == {[n |-> 2, cols |-> <<ColVendorID, ColExtra>>]}

NoLast == [routine |-> "none", ok |-> FALSE, remote |-> NoRemote]

Init ==
    /\ pc = "idle"
    /\ args = NoArgs
    /\ calls = <<>>
    /\ remote = NoRemote
    /\ df = NoFrame
    /\ pos = 0
    /\ table = NoTable
    /\ last = NoLast

\* ------------------------------------------------------------------------
\* main
\* ------------------------------------------------------------------------
Call(routine, u) == <<[routine |-> routine, url |-> u]>>

\* main, from the parsed options to the call of the routine.  Formatting
\* None with 04d / 02d raises TypeError before any routine is called.
Main(ArgSet, RemoteSet) ==
    /\ pc = "idle"
    /\ \E a \in ArgSet, r \in RemoteSet :
        /\ args' = a
        /\ remote' = r
        /\ IF a.dataset = "zone_lookup"
           THEN /\ calls' = Call("ingest_zone_lookup", ZoneUrl)
                /\ pc' = "zone_read"
           ELSE IF a.year = <<>> \/ a.month = <<>>
           THEN /\ calls' = <<>>
                /\ pc' = "error"
           ELSE IF a.file_format = "csv"
           THEN /\ calls' = Call("ingest_csv", CsvUrl(a.dataset, a.year[1], a.month[1]))
                /\ pc' = "csv_read"
           ELSE /\ calls' = Call("ingest_parquet",
                                 ParquetUrl(a.dataset, a.year[1], a.month[1]))
                /\ pc' = "parquet_read"
    /\ UNCHANGED <<df, pos, table, last>>

\* the process ends (return from main, or the unhandled exception); the
\* table stays, and the next command line may be run against it
Exit ==
    /\ pc \in {"done", "error"}
    /\ pc' = "idle"
    /\ last' = [routine |-> IF calls = <<>> THEN "none" ELSE calls[1].routine,
                ok |-> (pc = "done"),
                remote |-> remote]
    /\ args' = NoArgs
    /\ calls' = <<>>
    /\ remote' = NoRemote
    /\ df' = NoFrame
    /\ pos' = 0
    /\ UNCHANGED table

\* ------------------------------------------------------------------------
\* ingest_csv
\* ------------------------------------------------------------------------
\* a mutant of the iterator that loses the row after each chunk
NextPosSkipping(r, p, c) == Min(p + c + 1, r.n)

\* the iterator's position after next(df_iter)
NextPos(r, p, c) == Min(p + c, r.n)

\* next(df_iter): the next c rows of the file, or those that are left; of a
\* file without data rows the first chunk is the empty frame with the header
NextChunk(r, p, c) == [cols |-> r.cols, rows |-> RowsFrom(p + 1, Min(p + c, r.n))]

\* pd.read_csv(url, ..., iterator=True, chunksize=chunksize): a chunksize
\* below 1 is a ValueError; the download or the header may fail
CsvRead ==
    /\ pc = "csv_read"
    /\ \/ /\ args.chunksize >= 1
          /\ pc' = "csv_first"
          /\ pos' = 0
       \/ /\ pc' = "error"
          /\ pos' = pos
    /\ UNCHANGED <<args, calls, remote, df, table, last>>

\* first_chunk = next(df_iter)
CsvFirst ==
    /\ pc = "csv_first"
    /\ \/ /\ df' = NextChunk(remote, pos, args.chunksize)
          /\ pos' = NextPos(remote, pos, args.chunksize)
          /\ pc' = "csv_create"
       \/ /\ pc' = "error"
          /\ UNCHANGED <<df, pos>>
    /\ UNCHANGED <<args, calls, remote, table, last>>

\* a mutant of the create step: if_exists="append"
CsvCreateAppending ==
    /\ pc = "csv_create"
    /\ \E o \in ToSql(table, Head0(df), "append") :
        /\ table' = o.table
        /\ pc' = IF o.ok THEN "csv_append_first" ELSE "error"
    /\ UNCHANGED <<args, calls, remote, df, pos, last>>

\* first_chunk.head(0).to_sql(target_table, engine, if_exists="replace")
CsvCreate ==
    /\ pc = "csv_create"
    /\ \E o \in ToSql(table, Head0(df), "replace") :
        /\ table' = o.table
        /\ pc' = IF o.ok THEN "csv_append_first" ELSE "error"
    /\ UNCHANGED <<args, calls, remote, df, pos, last>>

\* a mutant that does not write the first chunk a second time
CsvAppendFirstSkipped ==
    /\ pc = "csv_append_first"
    /\ pc' = "csv_loop"
    /\ UNCHANGED <<args, calls, remote, df, pos, table, last>>

\* first_chunk.to_sql(target_table, engine, if_exists="append")
CsvAppendFirst ==
    /\ pc = "csv_append_first"
    /\ \E o \in ToSql(table, df, "append") :
        /\ table' = o.table
        /\ pc' = IF o.ok THEN "csv_loop" ELSE "error"
    /\ UNCHANGED <<args, calls, remote, df, pos, last>>

\* for chunk in tqdm(df_iter): the next chunk, or the end of the loop and
\* of the routine
CsvLoop ==
    /\ pc = "csv_loop"
    /\ IF pos < remote.n
       THEN \/ /\ df' = NextChunk(remote, pos, args.chunksize)
               /\ pos' = NextPos(remote, pos, args.chunksize)
               /\ pc' = "csv_append"
            \/ /\ pc' = "error"
               /\ UNCHANGED <<df, pos>>
       ELSE /\ pc' = "done"
            /\ UNCHANGED <<df, pos>>
    /\ UNCHANGED <<args, calls, remote, table, last>>

\* a mutant of the loop body that swallows the error of a failed write
CsvAppendSwallowing ==
    /\ pc = "csv_append"
    /\ \E o \in ToSql(table, df, "append") :
        /\ table' = o.table
        /\ pc' = "csv_loop"
    /\ UNCHANGED <<args, calls, remote, df, pos, last>>

\* chunk.to_sql(target_table, engine, if_exists="append")
CsvAppend ==
    /\ pc = "csv_append"
    /\ \E o \in ToSql(table, df, "append") :
        /\ table' = o.table
        /\ pc' = IF o.ok THEN "csv_loop" ELSE "error"
    /\ UNCHANGED <<args, calls, remote, df, pos, last>>

\* ------------------------------------------------------------------------
\* ingest_parquet
\* ------------------------------------------------------------------------
\* the whole file as one frame
WholeFile(r) == [cols |-> r.cols, rows |-> RowsFrom(1, r.n)]

\* df = pd.read_parquet(url)
ParquetRead ==
    /\ pc = "parquet_read"
    /\ \/ /\ df' = WholeFile(remote)
          /\ pc' = "parquet_lower"
       \/ /\ pc' = "error"
          /\ df' = df
    /\ UNCHANGED <<args, calls, remote, pos, table, last>>

\* df.columns = [c.lower() for c in df.columns]
ParquetLower ==
    /\ pc = "parquet_lower"
    /\ df' = [df EXCEPT !.cols = LowerColumns(df.cols)]
    /\ pc' = "parquet_write"
    /\ UNCHANGED <<args, calls, remote, pos, table, last>>

\* a mutant of the write: if_exists="append"
ParquetWriteAppending ==
    /\ pc = "parquet_write"
    /\ \E o \in ToSql(table, df, "append") :
        /\ table' = o.table
        /\ pc' = IF o.ok THEN "done" ELSE "error"
    /\ UNCHANGED <<args, calls, remote, df, pos, last>>

\* df.to_sql(target_table, engine, if_exists="replace", index=False,
\* chunksize=50_000): the batches of 50 000 rows are inserted within the one
\* transaction of the call
ParquetWrite ==
    /\ pc = "parquet_write"
    /\ \E o \in ToSql(table, df, "replace") :
        /\ table' = o.table
        /\ pc' = IF o.ok THEN "done" ELSE "error"
    /\ UNCHANGED <<args, calls, remote, df, pos, last>>

\* ------------------------------------------------------------------------
\* ingest_zone_lookup
\* ------------------------------------------------------------------------
\* df = pd.read_csv(url)
ZoneRead ==
    /\ pc = "zone_read"
    /\ \/ /\ df' = WholeFile(remote)
          /\ pc' = "zone_lower"
       \/ /\ pc' = "error"
          /\ df' = df
    /\ UNCHANGED <<args, calls, remote, pos, table, last>>

\* df.columns = [c.lower() for c in df.columns]
ZoneLower ==
    /\ pc = "zone_lower"
    /\ df' = [df EXCEPT !.cols = LowerColumns(df.cols)]
    /\ pc' = "zone_write"
    /\ UNCHANGED <<args, calls, remote, pos, table, last>>

\* df.to_sql(target_table, engine, if_exists="replace", index=False)
ZoneWrite ==
    /\ pc = "zone_write"
    /\ \E o \in ToSql(table, df, "replace") :
        /\ table' = o.table
        /\ pc' = IF o.ok THEN "done" ELSE "error"
    /\ UNCHANGED <<args, calls, remote, df, pos, last>>

\* ------------------------------------------------------------------------
\* Specifications
\* ------------------------------------------------------------------------
Routines ==
    \/ CsvRead \/ CsvFirst \/ CsvCreate \/ CsvAppendFirst \/ CsvLoop \/ CsvAppend
    \/ ParquetRead \/ ParquetLower \/ ParquetWrite
    \/ ZoneRead \/ ZoneLower \/ ZoneWrite

\* the ingestion runs: one command line per routine, every file and chunk size
Next == Main(IngestArgs, Remotes) \/ Exit \/ Routines

Spec == Init /\ [][Next]_vars

\* the dispatch runs: every combination of the options, one file
NextDispatch == Main(DispatchArgs, DispatchRemotes) \/ Exit \/ Routines

SpecDispatch == Init /\ [][NextDispatch]_vars

\* ------------------------------------------------------------------------
\* Vocabulary of the properties
\* ------------------------------------------------------------------------
\* the routine main has invoked in this run
Routine == IF calls = <<>> THEN "none" ELSE calls[1].routine

\* the data rows of the file served in this run, in file order
SourceRows == RowsFrom(1, remote.n)

\* the number of times row r is in the table
Copies(r) == Cardinality({i \in 1..Len(table.rows) : table.rows[i] = r})

\* the positions of ingest_csv at which the create step is behind
CsvWriting == {"csv_append_first", "csv_loop", "csv_append"}

\* the positions of ingest_csv at which a batch is written
CsvBatchWrite == {"csv_append_first", "csv_append"}

\* the previous run was a successful one of the same routine on the same file
SecondRunOf(routine) ==
    /\ pc = "done"
    /\ Routine = routine
    /\ last.ok
    /\ last.routine = routine
    /\ last.remote = remote

\* ------------------------------------------------------------------------
\* C1: a CSV ingestion run that completes without error leaves every one of
\* the N source rows in the table exactly once, N rows in total, whatever
\* the chunk size (N below it, N no multiple of it): the first batch, used
\* by the create step and by the first append, is inserted once.
\* ------------------------------------------------------------------------
C1_CsvInsertsEachRowOnce ==
    (pc = "done" /\ Routine = "ingest_csv") =>
        /\ Len(table.rows) = remote.n
        /\ \A r \in 1..remote.n : Copies(r) = 1

\* a completed run of three rows in chunks of two
C1_Witness ==
    /\ pc = "done"
    /\ Routine = "ingest_csv"
    /\ remote.n = 3
    /\ args.chunksize = 2
    /\ Len(table.rows) = 3

\* ------------------------------------------------------------------------
\* C2 as stated: after two successive successful CSV ingestion runs of the
\* same N-row file into the table, the table holds 2N rows.
\* ------------------------------------------------------------------------
C2_RerunAppends ==
    SecondRunOf("ingest_csv") => Len(table.rows) = 2 * remote.n

\* C2 amended: after two successive successful CSV ingestion runs of the
\* same N-row file, the table holds the N source rows once: the create step
\* of the second run has discarded the rows of the first.
C2_RerunReplaces ==
    SecondRunOf("ingest_csv") => table.rows = SourceRows

C2_Witness ==
    /\ SecondRunOf("ingest_csv")
    /\ remote.n = 2
    /\ Len(table.rows) = 2

\* ------------------------------------------------------------------------
\* C3: after a successful Parquet or zone-lookup ingestion the table holds
\* exactly the rows of that run's file, whatever it held before; so it
\* holds them once after the same ingestion has run twice.
\* ------------------------------------------------------------------------
C3_WholeFileReplaces ==
    (pc = "done" /\ Routine \in {"ingest_parquet", "ingest_zone_lookup"}) =>
        /\ table.exists
        /\ table.rows = SourceRows

\* the second of two successful Parquet runs of the same two-row file
C3_Witness ==
    /\ SecondRunOf("ingest_parquet")
    /\ remote.n = 2
    /\ Len(table.rows) = 2

\* ------------------------------------------------------------------------
\* C4: a step of CSV ingestion that is to write a batch and does not insert
\* it ends the run in error with the table as it was, holding exactly the
\* batches written before; and from the error nothing but the end of the
\* process follows, the table untouched: no retry, no later batch, no
\* rollback.
\* ------------------------------------------------------------------------
C4_FailedBatchAborts ==
    /\ [][(/\ pc \in CsvBatchWrite
           /\ df.rows # <<>>
           /\ table'.rows # table.rows \o df.rows)
          => (/\ pc' = "error"
              /\ table' = table
              /\ table.rows = RowsFrom(1, pos - Len(df.rows)))]_vars
    /\ [][pc = "error" => (pc' = "idle" /\ table' = table)]_vars

\* the write of a later batch has failed after earlier ones were written,
\* with rows of the file still to come
C4_Witness ==
    /\ pc = "error"
    /\ Routine = "ingest_csv"
    /\ Len(table.rows) >= 1
    /\ pos > Len(table.rows)
    /\ pos < remote.n

\* ------------------------------------------------------------------------
\* C5: every step of a Parquet ingestion leaves the table with the rows it
\* had, with no rows, or with all rows of the file: no step, a failed write
\* included, leaves some but not all of the file's rows behind.
\* ------------------------------------------------------------------------
C5_ParquetAllOrNothing ==
    [][Routine = "ingest_parquet" =>
          table'.rows \in {table.rows, <<>>, SourceRows}]_vars

\* a Parquet write of two rows or more has failed after the table was
\* created anew
C5_Witness ==
    /\ pc = "error"
    /\ Routine = "ingest_parquet"
    /\ Len(df.rows) >= 2
    /\ table.exists
    /\ table.cols = df.cols
    /\ table.rows = <<>>

\* ------------------------------------------------------------------------
\* C6: in CSV ingestion every change of the table after the create step
\* appends exactly the batch in hand, at a moment when all rows before that
\* batch are in the table (the writes of the earlier batches are complete);
\* after a successful run the rows of the table are in file order.
\* ------------------------------------------------------------------------
C6_BatchesInSourceOrder ==
    /\ []((pc = "done" /\ Routine = "ingest_csv") => table.rows = SourceRows)
    /\ [][(pc \in CsvWriting /\ table' # table)
          => (/\ pc \in CsvBatchWrite
              /\ table'.rows = table.rows \o df.rows
              /\ Len(table.rows) = pos - Len(df.rows))]_vars

\* a completed run of three batches
C6_Witness ==
    /\ pc = "done"
    /\ Routine = "ingest_csv"
    /\ remote.n = 3
    /\ args.chunksize = 1
    /\ table.rows = <<1, 2, 3>>

\* ------------------------------------------------------------------------
\* The documented URLs of the option values tried, written out
\* ------------------------------------------------------------------------
YearText(y) ==
    CASE y = -5 -> <<"-", "0", "0", "5">>
      [] y = 7 -> <<"0", "0", "0", "7">>
      [] y = 2021 -> <<"2", "0", "2", "1">>
      [] y = 12345 -> <<"1", "2", "3", "4", "5">>

MonthText(m) ==
    CASE m = -1 -> <<"-", "1">>
      [] m = 3 -> <<"0", "3">>
      [] m = 12 -> <<"1", "2">>
      [] m = 123 -> <<"1", "2", "3">>

CsvTemplate(a) ==
    <<"https://github.com/DataTalksClub/nyc-tlc-data/", "releases/download/",
      a.dataset, "/", a.dataset, "_tripdata_">>
    \o YearText(a.year[1]) \o <<"-">> \o MonthText(a.month[1]) \o <<".csv.gz">>

ParquetTemplate(a) ==
    <<"https://d37ci6vzurychx.cloudfront.net/trip-data/", a.dataset, "_tripdata_">>
    \o YearText(a.year[1]) \o <<"-">> \o MonthText(a.month[1]) \o <<".parquet">>

ZoneTemplate ==
    <<"https://github.com/DataTalksClub/nyc-tlc-data/releases/download/misc/taxi_zone_lookup.csv">>

\* the routine and URL the documentation gives for the options a
Documented(a) ==
    IF a.dataset = "zone_lookup"
    THEN [routine |-> "ingest_zone_lookup", url |-> ZoneTemplate]
    ELSE IF a.file_format = "csv"
    THEN [routine |-> "ingest_csv", url |-> CsvTemplate(a)]
    ELSE [routine |-> "ingest_parquet", url |-> ParquetTemplate(a)]

\* --year and --month are given, or the dataset needs none
Dated(a) == a.dataset = "zone_lookup" \/ (a.year # <<>> /\ a.month # <<>>)

\* ------------------------------------------------------------------------
\* C7 as stated: for every combination of dataset, format, year and month,
\* once main has acted exactly one routine has been invoked, once, the one
\* of the documentation with the URL of the documented template.
\* ------------------------------------------------------------------------
C7_AlwaysOneRoutine ==
    pc # "idle" =>
        /\ Len(calls) = 1
        /\ Dated(args) => calls[1] = Documented(args)

\* C7 amended: the same for every combination in which the dataset is
\* zone_lookup or both year and month are given (year and month in decimal,
\* zero-padded to at least 4 and 2 characters, a minus sign counted, longer
\* values whole); for yellow or green without a year or without a month no
\* routine is invoked and the run ends in error.
C7_OneRoutineWhenDated ==
    pc # "idle" =>
        IF Dated(args)
        THEN calls = <<Documented(args)>>
        ELSE calls = <<>> /\ pc = "error"

\* the CSV routine has been invoked for a one-digit year and month
C7_Witness ==
    /\ pc = "csv_read"
    /\ args.dataset = "green"
    /\ args.year = <<7>>
    /\ args.month = <<3>>
    /\ Len(calls) = 1

\* ------------------------------------------------------------------------
\* C8: whenever Parquet or zone-lookup ingestion writes the table, the
\* table's column names are the file's with every uppercase letter replaced
\* by its lowercase letter, so none contains an uppercase letter; whenever
\* CSV ingestion writes the table, its column names are the file's.
\* ------------------------------------------------------------------------
NoUpper(cols) ==
    \A i \in 1..Len(cols) : \A j \in 1..Len(cols[i]) : ~IsUpperChar(cols[i][j])

\* the names are the same up to the case of the letters tried
SameButCase(lowered, cols) ==
    /\ Len(lowered) = Len(cols)
    /\ \A i \in 1..Len(cols) :
        /\ Len(lowered[i]) = Len(cols[i])
        /\ \A j \in 1..Len(cols[i]) :
            \/ lowered[i][j] = cols[i][j]
            \/ <<cols[i][j], lowered[i][j]>> \in
                 {<<"V", "v">>, <<"I", "i">>, <<"D", "d">>, <<"Z", "z">>}

C8_ColumnCase ==
    [][(table' # table /\ table'.exists) =>
          ((Routine \in {"ingest_parquet", "ingest_zone_lookup"} =>
                (NoUpper(table'.cols) /\ SameButCase(table'.cols, remote.cols)))
           /\ (Routine = "ingest_csv" => table'.cols = remote.cols))]_vars

\* a Parquet file with uppercase letters in its header has been written
C8_Witness ==
    /\ pc = "done"
    /\ Routine = "ingest_parquet"
    /\ remote.cols = <<ColVendorID, ColExtra>>
    /\ table.cols = <<<<"v","e","n","d","o","r","i","d">>, ColExtra>>

\* ------------------------------------------------------------------------
\* C9: the create step of CSV ingestion, when it succeeds, leaves a table
\* with the first batch's columns and no rows, whatever the table held; and
\* no later step of the run changes the columns or removes a row.
\* ------------------------------------------------------------------------
IsPrefix(s, t) == Len(s) <= Len(t) /\ SubSeq(t, 1, Len(s)) = s

C9_CreateStepEmpties ==
    /\ [][(pc = "csv_create" /\ pc' = "csv_append_first") =>
             table' = [exists |-> TRUE, cols |-> df.cols, rows |-> <<>>]]_vars
    /\ [][(pc \in CsvWriting)
          => (/\ table'.exists
              /\ table'.cols = table.cols
              /\ IsPrefix(table.rows, table'.rows))]_vars

\* the create step has emptied a table that held the rows of the run before
C9_Witness ==
    /\ pc = "csv_append_first"
    /\ last.ok
    /\ last.remote.n >= 2
    /\ Len(df.rows) >= 1
    /\ table.cols = df.cols
    /\ table.rows = <<>>

\* ------------------------------------------------------------------------
\* C10: in every state of a CSV ingestion run after the create step, error
\* states included, the table holds the first k batches of the file in
\* order, for some k from 0 to the number of batches: the first
\* min(k * chunksize, N) rows of the file and nothing else.
\* ------------------------------------------------------------------------
NumBatches == (remote.n + args.chunksize - 1) \div args.chunksize

IsBatchPrefix ==
    \E k \in 0..NumBatches :
        table.rows = RowsFrom(1, Min(k * args.chunksize, remote.n))

C10_TableIsBatchPrefix ==
    [][(pc \in CsvWriting \/ (pc = "csv_create" /\ pc' = "csv_append_first"))
          => IsBatchPrefix']_vars

\* two of three rows are in the table, between two batches
C10_Witness ==
    /\ pc = "csv_loop"
    /\ remote.n = 3
    /\ args.chunksize = 2
    /\ table.rows = <<1, 2>>

====
